---------------------------- MODULE Spec2Model ----------------------------
(***************************************************************************)
(* Block execution pipeline of the contract runtime                        *)
(* (node/src/components/contract_runtime/operations.rs).                   *)
(*                                                                         *)
(* execute_finalized_block is modelled step by step: one action per        *)
(* statement that calls into the execution engine or may return early.     *)
(* The execution engine and the global state are collaborators: whatever   *)
(* they return is chosen nondeterministically, and every call made to them *)
(* is recorded in `log`.  execute_only is a single action.                 *)
(***************************************************************************)
EXTENDS Integers, Sequences, FiniteSets, TLC

(* ------------------------------ bounds -------------------------------- *)
MaxDeploys == 2     \* longest deploy list handed to execute_finalized_block
NumDeploys == 2     \* number of distinct deploys
NumRoots   == 2     \* number of distinct root hashes the engine may return
MaxHeight  == 2     \* block heights are 0..MaxHeight
MaxResults == 2     \* longest result list the engine may return for a request
MaxEvict   == 1     \* longest equivocator / inactive-validator list

(* ------------------------------ values -------------------------------- *)
PreRoot         == 0                 \* the root hash of the pre-state
Roots           == 1..NumRoots       \* root hashes returned by the engine
StepRoot        == 99                \* the post-state hash a scratch step returns
Heights         == 0..MaxHeight
Validators      == {"A", "B"}
ProtocolVersion == "v1"
Proposer        == "proposer"
Timestamp       == 1000
EraIdOfBlock    == 7
NextBlockHeight == 1                 \* the height the pre-state expects

APPROVALS_CHECKSUM_NAME         == "approvals_checksum"
EXECUTION_RESULTS_CHECKSUM_NAME == "execution_results_checksum"

None    == << >>
Some(x) == << x >>

SeqsUpTo(S, n) == UNION { [1..k -> S] : k \in 0..n }

IsInjective(s) == \A i, j \in DOMAIN s : s[i] = s[j] => i = j

\* A deploy: its hash, its header and the hash of its approvals.
Deploy(n) == [hash |-> n, header |-> 10 + n, approvals_hash |-> 20 + n]

DeployLists == { s \in SeqsUpTo({ Deploy(n) : n \in 1..NumDeploys }, MaxDeploys) : IsInjective(s) }

\* deploy.id(): the pair (deploy hash, approvals hash).
DeployId(deploy) == << deploy.hash, deploy.approvals_hash >>

\* DeployItem::from(deploy)
DeployItemFrom(deploy) == [deploy_hash |-> deploy.hash, item_of |-> deploy.header]

ValidatorLists == { s \in SeqsUpTo(Validators, MaxEvict) : IsInjective(s) }

\* rewards is a BTreeMap: its entries, in key order.
RewardMaps == { << >>, << <<"A", 5>>, <<"B", 6>> >> }

EraReports ==
    [equivocators : ValidatorLists, rewards : RewardMaps, inactive_validators : ValidatorLists]

FinalizedBlocks ==
    [height : Heights, era_report : {None} \cup { Some(r) : r \in EraReports },
     era_id : {EraIdOfBlock}, timestamp : {Timestamp}, proposer : {Proposer}]

ExecutionPreStates ==
    [pre_state_root_hash : {PreRoot}, parent_hash : {"parent_hash"},
     parent_seed : {"parent_seed"}, next_block_height : {NextBlockHeight}]

\* Results as the engine returns them.
EngineExecutionResults ==
    [kind : {"Success", "Failure"}, execution_journal : {"journal"}, cost : {3}]

\* What run_execute may return on success: a list of results.
ExecutionResultsLists == SeqsUpTo(EngineExecutionResults, MaxResults)

\* The upcoming-era validator tables get_era_validators may return.
\* EraId::successor
EraSuccessor(era_id) == era_id + 1

\* The upcoming-era validator tables get_era_validators may return: a map
\* from era ids to validator weights.
EraValidatorTables ==
    { [e \in D |-> 100 + e] : D \in SUBSET {EraIdOfBlock, EraSuccessor(EraIdOfBlock)} }

(* ----------------------------- variables ------------------------------ *)
VARIABLES
    pc,                          \* position in execute_finalized_block
    metrics,                     \* TRUE iff the metrics argument is Some
    execution_pre_state,         \* argument
    finalized_block,             \* argument
    deploys,                     \* argument
    idx,                         \* position of the `for deploy in deploys` loop
    state_root_hash,             \* local: the working root hash
    execution_results,           \* local: the (hash, header, result) triples
    approvals_checksum,          \* local
    result,                      \* local: what execute returned for deploys[idx]
    scratch_state,               \* None, or Some(effects cached by the scratch engine state)
    durable,                     \* what write_scratch_to_db has written to LMDB
    flushed,                     \* number of flush_environment calls that succeeded
    maybe_step,                  \* local: maybe_step_effect_and_upcoming_era_validators
    step_journal,                \* local: step_execution_journal
    proof,                       \* local: proof_of_checksum_registry
    ret,                         \* what execute_finalized_block returned
    log,                         \* every call made to the engine, in order
    observed,                    \* the metrics that were observed
    speculative,                 \* the last execute_only call and what it returned
    first_run                    \* an earlier call of execute_finalized_block, once returned

vars == << pc, metrics, execution_pre_state, finalized_block, deploys, idx,
           state_root_hash, execution_results, approvals_checksum, result,
           scratch_state, durable, flushed, maybe_step, step_journal, proof,
           ret, log, observed, speculative, first_run >>

\* What a call of execute_finalized_block is given, with the record of the
\* call that came before it.
callArgs == << metrics, execution_pre_state, finalized_block, deploys, first_run >>

(* ------------------------------ helpers ------------------------------- *)
NoRet == [status |-> "none", at |-> "none", value |-> << >>]

\* Err(...) returned from the statement `at`.
RetErr(at, e) == [status |-> "err", at |-> at, value |-> e]

RetOk(v) == [status |-> "ok", at |-> "end", value |-> v]

\* One call to the engine: the operation, the root hash it was given (or
\* None), its other argument and what it returned (None for an error).
EngineCall(op, root, arg, out) == [op |-> op, root |-> root, arg |-> arg, out |-> out]

Observe(m, name) == IF m THEN observed \cup {name} ELSE observed


\* types::compute_approvals_checksum / compute_execution_results_checksum:
\* a digest that commits to the items and to their order.
Checksum(items) == [digest_of |-> items]

\* ExecutionResult::from(&ee_execution_result): the public form of a result.
JsonExecutionResult(r) ==
    [variant |-> r.kind, effect |-> << "ExecutionEffect", r.execution_journal >>, cost |-> r.cost]

\* Mutation: the journal of a Failure is dropped.
ExecutionEffect_DropFailure(r) ==
    IF r.kind = "Failure" THEN << "AdditiveMap", "empty" >>
    ELSE << "AdditiveMap", r.execution_journal >>

\* execution_journal.into(): the AdditiveMap<Key, Transform> of a journal.
ExecutionEffect(r) == << "AdditiveMap", r.execution_journal >>

\* ExecuteRequest::new(state_root_hash, block_time, vec![item], protocol_version, proposer)
ExecuteRequest(root, block_time, items, proposer) ==
    [parent_state_hash |-> root, block_time |-> block_time, deploys |-> items,
     protocol_version |-> ProtocolVersion, proposer |-> proposer]

\* The Transform::Write of the ChecksumRegistry under Key::ChecksumRegistry.
ChecksumRegistryEffects(approvals, results) ==
    << "ChecksumRegistry",
       [approvals_checksum |-> approvals, execution_results_checksum |-> results] >>

\* Mutation: the loop commits on the LMDB-backed `engine_state`.
CommitEngine_Lmdb == "lmdb"

\* The engine state the loop executes and commits on: `&scratch_state`.
CommitEngine == "scratch"

\* The effects the scratch engine state caches (apply_effect, commit_step).
ScratchWith(effects) == Some(Append(scratch_state[1], effects))

\* What a successful apply_effect / commit_step on `engine` does to the state:
\* the scratch engine state caches the effects, the LMDB one writes them.
ScratchAfter(engine, effects) ==
    IF engine = "scratch" THEN ScratchWith(effects) ELSE scratch_state

DurableAfter(engine, root, effects) ==
    IF engine = "scratch" THEN durable
    ELSE Append(durable, [root |-> root, writes |-> << effects >>])

\* Mutation: only a block ahead of the pre-state is rejected.
WrongBlockHeight_OnlyAhead(fb, ps) == fb.height > ps.next_block_height

\* The height check of execute_finalized_block.
WrongBlockHeight(fb, ps) == fb.height # ps.next_block_height

\* vec![DeployItem::from(deploy)]
DeployItems(deploy) == << DeployItemFrom(deploy) >>

\* Mutation: the first result is taken, whatever follows it.
ExactlyOne_AtLeastOne(results) == Len(results) >= 1

\* .into_iter().exactly_one()
ExactlyOne(results) == Len(results) = 1

\* Mutation: hash and header pushed in the wrong places.
ResultEntry_Swapped(deploy, json_execution_result) ==
    << deploy.header, deploy.hash, json_execution_result >>

\* execution_results.push((deploy_hash, deploy_header, execution_result))
ResultEntry(deploy, json_execution_result) ==
    << deploy.hash, deploy.header, json_execution_result >>

\* Mutation: the working root is advanced only when metrics are recorded.
AdvanceRoot_OnlyWithMetrics(root, state_hash) ==
    IF metrics THEN state_hash ELSE root

\* Mutation: the working root is not advanced.
AdvanceRoot_Stale(root, state_hash) == root

\* state_root_hash = state_hash
AdvanceRoot(root, state_hash) == state_hash


\* if let Some(era_report) = finalized_block.era_report()
HasEraReport(fb) == fb.era_report # None

\* Mutation: only the first reward is passed on.
RewardItems_FirstOnly(era_report) ==
    [i \in DOMAIN era_report.rewards \cap {1} |->
        [validator_id |-> era_report.rewards[i][1], value |-> era_report.rewards[i][2]]]

\* rewards.iter().map(|(vid, value)| RewardItem::new(vid.clone(), *value)).collect()
RewardItems(era_report) ==
    [i \in DOMAIN era_report.rewards |->
        [validator_id |-> era_report.rewards[i][1], value |-> era_report.rewards[i][2]]]

\* Mutation: the equivocators are not evicted.
EvictItems_InactiveOnly(era_report) ==
    [i \in DOMAIN era_report.inactive_validators |->
        [validator_id |-> era_report.inactive_validators[i]]]

\* inactive_validators.iter().chain(equivocators).cloned().map(EvictItem::new).collect()
EvictItems(era_report) ==
    [i \in DOMAIN (era_report.inactive_validators \o era_report.equivocators) |->
        [validator_id |-> (era_report.inactive_validators \o era_report.equivocators)[i]]]

\* The StepRequest commit_step builds.
StepRequest(pre_state_root_hash, era_report, era_end_timestamp_millis, next_era_id) ==
    [pre_state_hash |-> pre_state_root_hash,
     protocol_version |-> ProtocolVersion,
     reward_items |-> RewardItems(era_report),
     slash_items |-> << >>,
     evict_items |-> EvictItems(era_report),
     next_era_id |-> next_era_id,
     era_end_timestamp_millis |-> era_end_timestamp_millis]

\* Mutation: the weights of the block's own era are looked up.
NextEraValidatorWeights_CurrentEra(maybe, era_id) ==
    IF maybe = None THEN None
    ELSE IF era_id \in DOMAIN maybe[1].upcoming_era_validators
           THEN Some(maybe[1].upcoming_era_validators[era_id])
           ELSE None

\* maybe_step.as_ref().and_then(|s| s.upcoming_era_validators.get(&successor).cloned())
NextEraValidatorWeights(maybe, era_id) ==
    IF maybe = None THEN None
    ELSE IF EraSuccessor(era_id) \in DOMAIN maybe[1].upcoming_era_validators
           THEN Some(maybe[1].upcoming_era_validators[EraSuccessor(era_id)])
           ELSE None

\* Mutation: the root the ChecksumRegistry write returned becomes the working root.
RootAfterRegistry_Advanced(root, returned) == returned

\* scratch_state.apply_effect(CorrelationId::new(), state_root_hash, effects)?;
\* the root hash it returns is dropped and state_root_hash stays as it is.
RootAfterRegistry(root, returned) == root

\* Mutation: the root write_scratch_to_db was given is kept.
RootAfterWriteScratch_Kept(root, written) == root

\* state_root_hash = engine_state.write_scratch_to_db(state_root_hash, ...)?
RootAfterWriteScratch(root, written) == written

\* Mutation: the loop stops one deploy early.
LoopDone_OneEarly(i, ds) == i >= Len(ds)

\* `for deploy in deploys` has consumed every deploy.
LoopDone(i, ds) == i > Len(ds)

\* Where control goes after the ChecksumRegistry write: the `if let` on the era report.
AfterChecksumRegistry(fb) == IF HasEraReport(fb) THEN "commit_step" ELSE "write_scratch"

\* Mutation: flush_environment is only reached in the era branch.
AfterWriteScratch_NoFlush(fb) == IF HasEraReport(fb) THEN "era_validators" ELSE "proof"

\* Where control goes after write_scratch_to_db: get_era_validators in the
\* era branch, flush_environment after the `if let` otherwise.
AfterWriteScratch(fb) == IF HasEraReport(fb) THEN "era_validators" ELSE "flush"

(* ------------------------------- Init --------------------------------- *)
Init ==
    /\ pc = "idle"
    /\ metrics = FALSE
    /\ execution_pre_state = None
    /\ finalized_block = None
    /\ deploys = << >>
    /\ idx = 0
    /\ state_root_hash = PreRoot
    /\ execution_results = << >>
    /\ approvals_checksum = None
    /\ result = None
    /\ scratch_state = None
    /\ durable = << >>
    /\ flushed = 0
    /\ maybe_step = None
    /\ step_journal = None
    /\ proof = None
    /\ ret = NoRet
    /\ log = << >>
    /\ observed = {}
    /\ speculative = None
    /\ first_run = None

(* ------------------------ execute_finalized_block --------------------- *)
\* The caller invokes execute_finalized_block with its arguments.
EnterWith(blocks, lists) ==
    /\ pc = "idle"
    /\ \E m \in BOOLEAN, ps \in ExecutionPreStates, fb \in blocks, ds \in lists :
          /\ metrics' = m
          /\ execution_pre_state' = Some(ps)
          /\ finalized_block' = Some(fb)
          /\ deploys' = ds
    /\ pc' = "check_height"
    /\ UNCHANGED << idx, state_root_hash, execution_results, approvals_checksum, result,
                    scratch_state, durable, flushed, maybe_step, step_journal, proof,
                    ret, log, observed, speculative, first_run >>

Enter == EnterWith(FinalizedBlocks, DeployLists)

\* The height check and the locals set up before the first call.
CheckHeight ==
    /\ pc = "check_height"
    /\ IF WrongBlockHeight(finalized_block[1], execution_pre_state[1])
         THEN /\ ret' = RetErr("check_height",
                          [error |-> "WrongBlockHeight",
                           finalized_block |-> finalized_block[1],
                           execution_pre_state |-> execution_pre_state[1]])
              /\ pc' = "done"
              /\ UNCHANGED << state_root_hash, execution_results >>
         ELSE /\ state_root_hash' = execution_pre_state[1].pre_state_root_hash
              /\ execution_results' = << >>
              /\ pc' = "approvals_checksum"
              /\ UNCHANGED ret
    /\ UNCHANGED << callArgs, idx, approvals_checksum, result, scratch_state, durable,
                    flushed, maybe_step, step_journal, proof, log, observed, speculative >>

\* deploy_ids and compute_approvals_checksum(deploy_ids)?
ComputeApprovalsChecksum ==
    /\ pc = "approvals_checksum"
    /\ \/ /\ approvals_checksum' = Some(Checksum([i \in DOMAIN deploys |-> DeployId(deploys[i])]))
          /\ pc' = "get_scratch"
          /\ UNCHANGED ret
       \/ /\ ret' = RetErr("approvals_checksum", [error |-> "BlockCreation(BytesRepr)"])
          /\ pc' = "done"
          /\ UNCHANGED approvals_checksum
    /\ UNCHANGED << callArgs, idx, state_root_hash, execution_results, result, scratch_state,
                    durable, flushed, maybe_step, step_journal, proof, log, observed,
                    speculative >>

\* engine_state.get_scratch_engine_state()
GetScratchEngineState ==
    /\ pc = "get_scratch"
    /\ scratch_state' = Some(<< >>)
    /\ log' = Append(log, EngineCall("get_scratch_engine_state", None, None, None))
    /\ idx' = 1
    /\ pc' = "loop"
    /\ UNCHANGED << callArgs, state_root_hash, execution_results, approvals_checksum, result,
                    durable, flushed, maybe_step, step_journal, proof, ret, observed,
                    speculative >>

\* The first half of the loop body: build the request and execute it.
ExecuteDeployWith(lists) ==
    /\ pc = "loop"
    /\ ~LoopDone(idx, deploys)
    /\ LET execute_request ==
               ExecuteRequest(state_root_hash, finalized_block[1].timestamp,
                              DeployItems(deploys[idx]), finalized_block[1].proposer)
       IN  \/ \E rs \in lists :
                 /\ log' = Append(log, EngineCall("run_execute", Some(state_root_hash),
                                                  execute_request, Some(rs)))
                 /\ result' = Some(rs)
                 /\ pc' = "commit"
                 /\ UNCHANGED ret
           \/ /\ log' = Append(log, EngineCall("run_execute", Some(state_root_hash),
                                               execute_request, None))
              /\ ret' = RetErr("execute", [error |-> "EngineState"])
              /\ pc' = "done"
              /\ UNCHANGED result
    /\ observed' = Observe(metrics, "run_execute")
    /\ UNCHANGED << callArgs, idx, state_root_hash, execution_results, approvals_checksum,
                    scratch_state, durable, flushed, maybe_step, step_journal, proof,
                    speculative >>

ExecuteDeploy == ExecuteDeployWith(ExecutionResultsLists)

\* The second half of the loop body: commit_execution_results, push, advance.
CommitExecutionResultsWith(roots) ==
    /\ pc = "commit"
    /\ IF ~ExactlyOne(result[1])
         THEN /\ ret' = RetErr("commit", [error |-> "MoreThanOneExecutionResult"])
              /\ pc' = "done"
              /\ UNCHANGED << log, scratch_state, durable, execution_results,
                              state_root_hash, idx, observed >>
         ELSE LET ee_execution_result == result[1][1]
                  json_execution_result == JsonExecutionResult(ee_execution_result)
                  execution_effect == ExecutionEffect(ee_execution_result)
              IN  /\ observed' = Observe(metrics, "apply_effect")
                  /\ \/ \E new_state_root \in roots :
                           /\ log' = Append(log, EngineCall("apply_effect", Some(state_root_hash),
                                                            execution_effect, Some(new_state_root)))
                           /\ scratch_state' = ScratchAfter(CommitEngine, execution_effect)
                           /\ durable' = DurableAfter(CommitEngine, state_root_hash,
                                                      execution_effect)
                           /\ execution_results' =
                                  Append(execution_results,
                                         ResultEntry(deploys[idx], json_execution_result))
                           /\ state_root_hash' = AdvanceRoot(state_root_hash, new_state_root)
                           /\ idx' = idx + 1
                           /\ pc' = "loop"
                           /\ UNCHANGED ret
                     \/ /\ log' = Append(log, EngineCall("apply_effect", Some(state_root_hash),
                                                         execution_effect, None))
                        /\ ret' = RetErr("commit", [error |-> "EngineState"])
                        /\ pc' = "done"
                        /\ UNCHANGED << scratch_state, durable, execution_results,
                                        state_root_hash, idx >>
    /\ result' = None
    /\ UNCHANGED << callArgs, approvals_checksum, flushed, maybe_step, step_journal,
                    proof, speculative >>

CommitExecutionResults == CommitExecutionResultsWith(Roots)

\* compute_execution_results_checksum(&results)?, once the loop has ended.
ComputeExecutionResultsChecksum ==
    /\ pc = "loop"
    /\ LoopDone(idx, deploys)
    /\ \/ /\ pc' = "checksum_registry"
          /\ UNCHANGED ret
       \/ /\ ret' = RetErr("results_checksum", [error |-> "BlockCreation(BytesRepr)"])
          /\ pc' = "done"
    /\ UNCHANGED << callArgs, idx, state_root_hash, execution_results, approvals_checksum,
                    result, scratch_state, durable, flushed, maybe_step, step_journal, proof,
                    log, observed, speculative >>

\* The ChecksumRegistry is built and written with scratch_state.apply_effect;
\* the root hash apply_effect returns is dropped.
WriteChecksumRegistryWith(roots) ==
    /\ pc = "checksum_registry"
    /\ LET execution_results_checksum ==
               Checksum([i \in DOMAIN execution_results |-> execution_results[i][3]])
           effects == ChecksumRegistryEffects(approvals_checksum[1], execution_results_checksum)
       IN  \/ \E new_root \in roots :
                 /\ log' = Append(log, EngineCall("apply_effect", Some(state_root_hash),
                                                  effects, Some(new_root)))
                 /\ scratch_state' = ScratchAfter(CommitEngine, effects)
                 /\ durable' = DurableAfter(CommitEngine, state_root_hash, effects)
                 /\ state_root_hash' = RootAfterRegistry(state_root_hash, new_root)
                 /\ observed' = Observe(metrics, "exec_block")
                 /\ pc' = AfterChecksumRegistry(finalized_block[1])
                 /\ UNCHANGED ret
           \/ /\ log' = Append(log, EngineCall("apply_effect", Some(state_root_hash),
                                               effects, None))
              /\ ret' = RetErr("checksum_registry", [error |-> "EngineState"])
              /\ pc' = "done"
              /\ UNCHANGED << scratch_state, durable, state_root_hash, observed >>
           \/ /\ ret' = RetErr("checksum_registry", [error |-> "BlockCreation(CLValue)"])
              /\ pc' = "done"
              /\ UNCHANGED << log, scratch_state, durable, state_root_hash, observed >>
    /\ UNCHANGED << callArgs, idx, execution_results, approvals_checksum,
                    result, flushed, maybe_step, step_journal, proof, speculative >>

WriteChecksumRegistry == WriteChecksumRegistryWith(Roots)

\* commit_step(&scratch_state, ...)? on a block that has an era report.
CommitStep ==
    /\ pc = "commit_step"
    /\ LET step_request ==
               StepRequest(state_root_hash, finalized_block[1].era_report[1],
                           finalized_block[1].timestamp,
                           EraSuccessor(finalized_block[1].era_id))
       IN  \/ \E post_state_hash \in {StepRoot} :
                 LET step_success == [post_state_hash |-> post_state_hash,
                                      execution_journal |-> "step_journal"]
                 IN  /\ log' = Append(log, EngineCall("commit_step", Some(state_root_hash),
                                                      step_request, Some(step_success)))
                     /\ scratch_state' =
                            ScratchAfter(CommitEngine, << "step", step_success.execution_journal >>)
                     /\ durable' = DurableAfter(CommitEngine, state_root_hash,
                                                << "step", step_success.execution_journal >>)
                     /\ step_journal' = Some(step_success.execution_journal)
                     /\ pc' = "write_scratch"
                     /\ UNCHANGED ret
           \/ /\ log' = Append(log, EngineCall("commit_step", Some(state_root_hash),
                                               step_request, None))
              /\ ret' = RetErr("commit_step", [error |-> "Step"])
              /\ pc' = "done"
              /\ UNCHANGED << scratch_state, durable, step_journal >>
    /\ observed' = IF metrics THEN observed \cup {"commit_step", "latest_commit_step"}
                              ELSE observed
    /\ UNCHANGED << callArgs, idx, state_root_hash, execution_results, approvals_checksum,
                    result, flushed, maybe_step, proof, speculative >>

\* state_root_hash = engine_state.write_scratch_to_db(state_root_hash,
\* scratch_state.into_inner())?, in either branch of the `if let`.
WriteScratchToDbWith(roots) ==
    /\ pc = "write_scratch"
    /\ scratch_state' = None
    /\ \/ \E new_root \in roots :
             /\ log' = Append(log, EngineCall("write_scratch_to_db", Some(state_root_hash),
                                              scratch_state[1], Some(new_root)))
             /\ durable' = Append(durable, [root |-> state_root_hash, writes |-> scratch_state[1]])
             /\ state_root_hash' = RootAfterWriteScratch(state_root_hash, new_root)
             /\ pc' = AfterWriteScratch(finalized_block[1])
             /\ UNCHANGED ret
       \/ /\ log' = Append(log, EngineCall("write_scratch_to_db", Some(state_root_hash),
                                           scratch_state[1], None))
          /\ ret' = RetErr("write_scratch", [error |-> "EngineState"])
          /\ pc' = "done"
          /\ UNCHANGED << durable, state_root_hash >>
    /\ UNCHANGED << callArgs, idx, execution_results, approvals_checksum, result, flushed,
                    maybe_step, step_journal, proof, observed, speculative >>

WriteScratchToDb == WriteScratchToDbWith(Roots)

\* engine_state.get_era_validators(...)? and the Some(StepEffectAndUpcomingEraValidators).
GetEraValidators ==
    /\ pc = "era_validators"
    /\ LET request == [state_hash |-> state_root_hash, protocol_version |-> ProtocolVersion]
       IN  \/ \E upcoming_era_validators \in EraValidatorTables :
                 /\ log' = Append(log, EngineCall("get_era_validators", Some(state_root_hash),
                                                  request, Some(upcoming_era_validators)))
                 /\ maybe_step' = Some([step_execution_journal |-> step_journal[1],
                                        upcoming_era_validators |-> upcoming_era_validators])
                 /\ pc' = "flush"
                 /\ UNCHANGED ret
           \/ /\ log' = Append(log, EngineCall("get_era_validators", Some(state_root_hash),
                                               request, None))
              /\ ret' = RetErr("era_validators", [error |-> "GetEraValidators"])
              /\ pc' = "done"
              /\ UNCHANGED maybe_step
    /\ UNCHANGED << callArgs, idx, state_root_hash, execution_results, approvals_checksum,
                    result, scratch_state, durable, flushed, step_journal, proof, observed,
                    speculative >>

\* engine_state.flush_environment()?
FlushEnvironment ==
    /\ pc = "flush"
    /\ \/ /\ log' = Append(log, EngineCall("flush_environment", None, None, Some("flushed")))
          /\ flushed' = flushed + 1
          /\ pc' = "proof"
          /\ UNCHANGED ret
       \/ /\ log' = Append(log, EngineCall("flush_environment", None, None, None))
          /\ ret' = RetErr("flush", [error |-> "Lmdb"])
          /\ pc' = "done"
          /\ UNCHANGED flushed
    /\ UNCHANGED << callArgs, idx, state_root_hash, execution_results, approvals_checksum,
                    result, scratch_state, durable, maybe_step, step_journal, proof, observed,
                    speculative >>

\* engine_state.get_checksum_registry_proof(CorrelationId::new(), state_root_hash)?
GetChecksumRegistryProof ==
    /\ pc = "proof"
    /\ \/ /\ log' = Append(log, EngineCall("get_checksum_registry_proof", Some(state_root_hash),
                                           None, Some("proof")))
          /\ proof' = Some([proof_at |-> state_root_hash])
          /\ pc' = "block"
          /\ UNCHANGED ret
       \/ /\ log' = Append(log, EngineCall("get_checksum_registry_proof", Some(state_root_hash),
                                           None, None))
          /\ ret' = RetErr("proof", [error |-> "EngineState"])
          /\ pc' = "done"
          /\ UNCHANGED proof
    /\ UNCHANGED << callArgs, idx, state_root_hash, execution_results, approvals_checksum,
                    result, scratch_state, durable, flushed, maybe_step, step_journal, observed,
                    speculative >>

\* next_era_validator_weights, Block::new(...)?, the ApprovalsHashes and the Ok(...).
BlockNew ==
    /\ pc = "block"
    /\ LET next_era_validator_weights ==
               NextEraValidatorWeights(maybe_step, finalized_block[1].era_id)
           block == [parent_hash |-> execution_pre_state[1].parent_hash,
                     parent_seed |-> execution_pre_state[1].parent_seed,
                     state_root_hash |-> state_root_hash,
                     finalized_block |-> finalized_block[1],
                     next_era_validator_weights |-> next_era_validator_weights,
                     protocol_version |-> ProtocolVersion]
           approvals_hashes ==
               [block_hash |-> [hash_of |-> block],
                approvals_hashes |-> [i \in DOMAIN deploys |-> DeployId(deploys[i])[2]],
                proof_of_checksum_registry |-> proof[1]]
       IN  \/ /\ ret' = RetOk([block |-> block,
                               approvals_hashes |-> approvals_hashes,
                               execution_results |-> execution_results,
                               maybe_step_effect_and_upcoming_era_validators |-> maybe_step])
              /\ log' = Append(log, EngineCall("Block::new", Some(state_root_hash),
                                               next_era_validator_weights, Some("block")))
           \/ /\ ret' = RetErr("block", [error |-> "BlockCreation"])
              /\ log' = Append(log, EngineCall("Block::new", Some(state_root_hash),
                                               next_era_validator_weights, None))
    /\ pc' = "done"
    /\ UNCHANGED << callArgs, idx, state_root_hash, execution_results, approvals_checksum,
                    result, scratch_state, durable, flushed, maybe_step, step_journal, proof,
                    observed, speculative >>

(* ----------------------------- execute_only --------------------------- *)
\* Mutation: pop_front without the check of the length.
ExecuteOnlyResult_First(results) ==
    IF Len(results) = 0 THEN None
    ELSE Some(JsonExecutionResult(Head(results)))

\* The closure execute_only maps over the engine's results.
ExecuteOnlyResult(results) ==
    IF Len(results) # 1 THEN None
    ELSE Some(JsonExecutionResult(Head(results)))

\* Mutation: execute_only commits the effects of the one result it got.
SpeculativeCalls_Committing(root, execute_request, out) ==
    << EngineCall("run_execute", Some(root), execute_request, out) >>
    \o (IF out # None /\ Len(out[1]) = 1
          THEN << EngineCall("apply_effect", Some(root), ExecutionEffect(out[1][1]), Some(root)) >>
          ELSE << >>)

\* The calls execute_only makes to the engine state it is given: the one
\* run_execute of execute(engine_state, None, execute_request).
SpeculativeCalls(root, execute_request, out) ==
    << EngineCall("run_execute", Some(root), execute_request, out) >>

\* What the calls of execute_only leave in the state of the engine it is given:
\* run_execute writes nothing, an apply_effect writes its effects.
DurableAfterCalls(calls) ==
    LET commits == SelectSeq(calls, LAMBDA c : c.op = "apply_effect" /\ c.out # None)
    IN  durable \o [i \in DOMAIN commits |->
                       [root |-> commits[i].root[1], writes |-> << commits[i].arg >>]]

\* execute_only(engine_state, execution_state, deploy): one call of execute.
\* A behaviour holds one call of execute_only, at any point of the block execution.
ExecuteOnly ==
    /\ speculative = None
    /\ \E root \in {PreRoot} \cup Roots, n \in 1..NumDeploys,
          out \in {None} \cup { Some(rs) : rs \in ExecutionResultsLists } :
          LET deploy == DeployItemFrom(Deploy(n))
              execution_state == [state_root_hash |-> root, block_time |-> Timestamp,
                                  protocol_version |-> ProtocolVersion]
              execute_request == ExecuteRequest(execution_state.state_root_hash,
                                                execution_state.block_time,
                                                << deploy >>, "System")
              calls == SpeculativeCalls(root, execute_request, out)
          IN  /\ speculative' =
                     Some([execution_state |-> execution_state,
                           deploy |-> deploy,
                           calls |-> calls,
                           ret |-> IF out = None
                                     THEN RetErr("execute", [error |-> "EngineState"])
                                     ELSE RetOk(ExecuteOnlyResult(out[1]))])
              /\ durable' = DurableAfterCalls(calls)
    /\ UNCHANGED << pc, callArgs, idx, state_root_hash, execution_results, approvals_checksum,
                    result, scratch_state, flushed, maybe_step, step_journal, proof,
                    ret, log, observed >>

\* Blocks without an era report and deploy lists of at most one deploy.
EnterSpeculative ==
    EnterWith({ fb \in FinalizedBlocks : fb.era_report = None },
              { ds \in DeployLists : Len(ds) <= 1 })

Next ==
    \/ Enter
    \/ CheckHeight
    \/ ComputeApprovalsChecksum
    \/ GetScratchEngineState
    \/ ExecuteDeploy
    \/ CommitExecutionResults
    \/ ComputeExecutionResultsChecksum
    \/ WriteChecksumRegistry
    \/ CommitStep
    \/ WriteScratchToDb
    \/ GetEraValidators
    \/ FlushEnvironment
    \/ GetChecksumRegistryProof
    \/ BlockNew

Spec == Init /\ [][Next]_vars

\* execute_only running at any point of a block execution.
NextSpeculative ==
    \/ ExecuteOnly
    \/ EnterSpeculative
    \/ CheckHeight
    \/ ComputeApprovalsChecksum
    \/ GetScratchEngineState
    \/ ExecuteDeploy
    \/ CommitExecutionResults
    \/ ComputeExecutionResultsChecksum
    \/ WriteChecksumRegistry
    \/ WriteScratchToDb
    \/ FlushEnvironment
    \/ GetChecksumRegistryProof
    \/ BlockNew

SpecSpeculative == Init /\ [][NextSpeculative]_vars

(* ------------------- a second call of execute_finalized_block --------- *)
\* The record of a call that has returned.
Invocation ==
    [metrics |-> metrics, execution_pre_state |-> execution_pre_state[1],
     finalized_block |-> finalized_block[1], deploys |-> deploys,
     execution_results |-> execution_results,
     ret |-> ret, log |-> log, durable |-> durable]

\* Once a call has returned, the caller invokes execute_finalized_block again,
\* with the arguments given and on an engine whose LMDB state is `lmdb`
\* (with `syncs` flushes behind it). The locals of the call start afresh.
Again(m, ps, fb, ds, lmdb, syncs) ==
    /\ pc = "done"
    /\ first_run = None
    /\ first_run' = Some(Invocation)
    /\ metrics' = m
    /\ execution_pre_state' = Some(ps)
    /\ finalized_block' = Some(fb)
    /\ deploys' = ds
    /\ durable' = lmdb
    /\ flushed' = syncs
    /\ idx' = 0
    /\ state_root_hash' = PreRoot
    /\ execution_results' = << >>
    /\ approvals_checksum' = None
    /\ result' = None
    /\ scratch_state' = None
    /\ maybe_step' = None
    /\ step_journal' = None
    /\ proof' = None
    /\ ret' = NoRet
    /\ log' = << >>
    /\ observed' = {}
    /\ pc' = "check_height"
    /\ UNCHANGED speculative

\* The blocks and deploy lists of the calls that are made one after the other.
SmallBlocks == { fb \in FinalizedBlocks : fb.era_report = None }
SmallLists  == { ds \in DeployLists : Len(ds) <= 1 }

EnterFirst == EnterWith(SmallBlocks, SmallLists)

\* A second call on the same engine instance: LMDB is as the first call left it.
EnterAgain ==
    \E m \in BOOLEAN, ps \in ExecutionPreStates, fb \in SmallBlocks, ds \in SmallLists :
        Again(m, ps, fb, ds, durable, flushed)

NextTwice ==
    \/ EnterFirst
    \/ EnterAgain
    \/ CheckHeight
    \/ ComputeApprovalsChecksum
    \/ GetScratchEngineState
    \/ ExecuteDeploy
    \/ CommitExecutionResults
    \/ ComputeExecutionResultsChecksum
    \/ WriteChecksumRegistry
    \/ WriteScratchToDb
    \/ FlushEnvironment
    \/ GetChecksumRegistryProof
    \/ BlockNew

SpecTwice == Init /\ [][NextTwice]_vars

(* ------------------ the same call again, deterministic engine --------- *)
\* The statements a returned call got to: the place of the statement it
\* failed at, or the end.
Reached(r) ==
    IF r.status = "ok" THEN 12
    ELSE CASE r.at = "check_height"       -> 1
           [] r.at = "approvals_checksum" -> 2
           [] r.at = "execute"            -> 3
           [] r.at = "commit"             -> 3
           [] r.at = "results_checksum"   -> 4
           [] r.at = "checksum_registry"  -> 5
           [] r.at = "commit_step"        -> 6
           [] r.at = "write_scratch"      -> 7
           [] r.at = "era_validators"     -> 8
           [] r.at = "flush"              -> 9
           [] r.at = "proof"              -> 10
           [] r.at = "block"              -> 11

FailedAt(r, at) == r.status = "err" /\ r.at = at

ClValueFailed(r) == FailedAt(r, "checksum_registry") /\ r.value.error = "BlockCreation(CLValue)"

\* The engine, the state store and the checksum and CLValue computations are
\* deterministic: in the second call, an engine call that follows the same
\* calls as in the first and makes the same request gets the same answer, and a
\* computation on the same items fails iff it failed in the first call.
Consistent ==
    first_run # None =>
        LET f == first_run[1]
            n == Len(log)
        IN  /\ (/\ n > 0
                /\ n <= Len(f.log)
                /\ SubSeq(log, 1, n - 1) = SubSeq(f.log, 1, n - 1)
                /\ log[n].op = f.log[n].op
                /\ log[n].root = f.log[n].root
                /\ log[n].arg = f.log[n].arg)
                   => log[n].out = f.log[n].out
            /\ FailedAt(ret, "approvals_checksum") => FailedAt(f.ret, "approvals_checksum")
            /\ approvals_checksum # None => ~FailedAt(f.ret, "approvals_checksum")
            /\ (Reached(f.ret) >= 4 /\ f.execution_results = execution_results) =>
                  /\ FailedAt(ret, "results_checksum") => FailedAt(f.ret, "results_checksum")
                  /\ pc = "checksum_registry" => ~FailedAt(f.ret, "results_checksum")
            /\ (Reached(f.ret) >= 5 /\ f.execution_results = execution_results) =>
                  /\ ClValueFailed(ret) => ClValueFailed(f.ret)
                  /\ (\E k \in DOMAIN log : log[k].op = "apply_effect"
                                            /\ log[k].arg[1] = "ChecksumRegistry")
                         => ~ClValueFailed(f.ret)

\* The blocks of the calls that are made twice: no eviction in the era report.
ReplayBlocks ==
    { fb \in FinalizedBlocks :
         fb.era_report # None =>
            /\ fb.era_report[1].equivocators = << >>
            /\ fb.era_report[1].inactive_validators = << >> }

EnterReplayed == EnterWith(ReplayBlocks, DeployLists)

\* The same call again, from the durable state the first one started from,
\* with or without metrics.
Replay ==
    \E m \in BOOLEAN :
        Again(m, execution_pre_state[1], finalized_block[1], deploys, << >>, 0)

NextReplay ==
    \/ EnterReplayed
    \/ Replay
    \/ CheckHeight /\ Consistent'
    \/ ComputeApprovalsChecksum /\ Consistent'
    \/ GetScratchEngineState /\ Consistent'
    \/ ExecuteDeploy /\ Consistent'
    \/ CommitExecutionResults /\ Consistent'
    \/ ComputeExecutionResultsChecksum /\ Consistent'
    \/ WriteChecksumRegistry /\ Consistent'
    \/ CommitStep /\ Consistent'
    \/ WriteScratchToDb /\ Consistent'
    \/ GetEraValidators /\ Consistent'
    \/ FlushEnvironment /\ Consistent'
    \/ GetChecksumRegistryProof /\ Consistent'
    \/ BlockNew /\ Consistent'

SpecReplay == Init /\ [][NextReplay]_vars

(* ------------------ deploy order, on a counting engine ---------------- *)
\* A global state that holds one counter, the root hash of a state standing
\* for the value of its counter. A deploy with an odd hash adds one to the
\* counter, another one doubles it and adds one.
CounterAfter(deploy_hash, x) == IF deploy_hash % 2 = 1 THEN x + 1 ELSE 2 * x + 1

\* run_execute: one Success whose journal writes the counter, computed on the
\* state of the request's parent_state_hash.
CounterExecute(request) ==
    << [kind |-> "Success",
        execution_journal |->
            << "Write", CounterAfter(request.deploys[1].deploy_hash,
                                     request.parent_state_hash) >>,
        cost |-> 3] >>

\* apply_effect: the root of the state at `root` with the effects applied; the
\* ChecksumRegistry is no part of the counter.
CounterApply(root, effects) ==
    IF effects[1] = "AdditiveMap" THEN effects[2][2] ELSE root

\* write_scratch_to_db: the root of the state at `root` with the cached effects
\* written, in the order they were cached.
RECURSIVE CounterWritten(_, _)
CounterWritten(root, cached) ==
    IF cached = << >> THEN root
    ELSE CounterWritten(CounterApply(root, Head(cached)), Tail(cached))

Reverse(s) == [i \in 1..Len(s) |-> s[Len(s) + 1 - i]]

EnterOrdered == EnterWith(SmallBlocks, DeployLists)

\* The same call from the same durable state, the deploys in reverse order.
Reorder ==
    Again(metrics, execution_pre_state[1], finalized_block[1], Reverse(deploys), << >>, 0)

ExecuteCounted ==
    ExecuteDeployWith({ CounterExecute(
        ExecuteRequest(state_root_hash, finalized_block[1].timestamp,
                       DeployItems(deploys[idx]), finalized_block[1].proposer)) })

CommitCounted ==
    CommitExecutionResultsWith({ CounterApply(state_root_hash, ExecutionEffect(result[1][1])) })

WriteRegistryCounted == WriteChecksumRegistryWith({ state_root_hash })

WriteScratchCounted ==
    WriteScratchToDbWith({ CounterWritten(state_root_hash, scratch_state[1]) })

NextOrder ==
    \/ EnterOrdered
    \/ Reorder
    \/ CheckHeight
    \/ ComputeApprovalsChecksum
    \/ GetScratchEngineState
    \/ ExecuteCounted
    \/ CommitCounted
    \/ ComputeExecutionResultsChecksum
    \/ WriteRegistryCounted
    \/ WriteScratchCounted
    \/ FlushEnvironment
    \/ GetChecksumRegistryProof
    \/ BlockNew

SpecOrder == Init /\ [][NextOrder]_vars

TypeOK == pc \in {"idle", "check_height", "approvals_checksum", "get_scratch", "loop", "commit",
                  "checksum_registry", "commit_step", "write_scratch", "era_validators",
                  "flush", "proof", "block", "done"}

(* ====================== properties of the pipeline ==================== *)
\* The positions of `log` that satisfy Test.
Positions(Test(_)) == { k \in DOMAIN log : Test(log[k]) }

IsExecute(e)        == e.op = "run_execute"
IsApply(e)          == e.op = "apply_effect"
IsDeployCommit(e)   == e.op = "apply_effect" /\ e.arg[1] = "AdditiveMap"
IsRegistryWrite(e)  == e.op = "apply_effect" /\ e.arg[1] = "ChecksumRegistry"
IsStep(e)           == e.op = "commit_step"
IsWriteScratch(e)   == e.op = "write_scratch_to_db"
IsGetScratch(e)     == e.op = "get_scratch_engine_state"
IsEraValidators(e)  == e.op = "get_era_validators"
IsFlush(e)          == e.op = "flush_environment"
IsProof(e)          == e.op = "get_checksum_registry_proof"
IsBlockNew(e)       == e.op = "Block::new"
IsLoopCall(e)       == IsExecute(e) \/ IsDeployCommit(e)

\* The run_execute calls, the commits of deploy effects, and both, in order.
Executes      == SelectSeq(log, IsExecute)
DeployCommits == SelectSeq(log, IsDeployCommit)
LoopCalls     == SelectSeq(log, IsLoopCall)

Entered   == pc \notin {"idle"}
PastGate  == pc \notin {"idle", "check_height"}
Returned  == pc = "done"
Succeeded == pc = "done" /\ ret.status = "ok"
Failed    == pc = "done" /\ ret.status = "err"

\* C1: a call whose finalized block's height differs from the pre-state's
\* next_block_height returns WrongBlockHeight with both arguments, and has made
\* no call to the engine, opened no scratch state and written nothing.
C1_HeightGate ==
    (PastGate /\ finalized_block[1].height # execution_pre_state[1].next_block_height)
        => /\ pc = "done"
           /\ ret = RetErr("check_height",
                           [error |-> "WrongBlockHeight",
                            finalized_block |-> finalized_block[1],
                            execution_pre_state |-> execution_pre_state[1]])
           /\ log = << >>
           /\ scratch_state = None
           /\ durable = << >>

C1_Witness ==
    /\ pc = "done"
    /\ finalized_block[1].height < execution_pre_state[1].next_block_height
    /\ Len(deploys) = 2
    /\ ret.value.error = "WrongBlockHeight"

\* C2: the deploys are executed and committed in the order of the list, one
\* after the other: the k-th execute carries deploy k, the first one runs on
\* pre_state_root_hash, every commit runs on the root its execute ran on, and
\* the execute of the next deploy runs on the root that commit returned.
C2_RootThreading ==
    PastGate =>
        \A k \in DOMAIN LoopCalls :
            IF k % 2 = 1
              THEN /\ IsExecute(LoopCalls[k])
                   /\ LoopCalls[k].arg.deploys = << DeployItemFrom(deploys[(k + 1) \div 2]) >>
                   /\ IF k = 1
                        THEN LoopCalls[k].root = Some(execution_pre_state[1].pre_state_root_hash)
                        ELSE /\ LoopCalls[k - 1].out # None
                             /\ LoopCalls[k].root = LoopCalls[k - 1].out
                   /\ LoopCalls[k].arg.parent_state_hash = LoopCalls[k].root[1]
              ELSE /\ IsDeployCommit(LoopCalls[k])
                   /\ LoopCalls[k - 1].out # None
                   /\ LoopCalls[k].root = LoopCalls[k - 1].root

C2_Witness ==
    /\ Succeeded
    /\ Len(deploys) = 2
    /\ Len(LoopCalls) = 4
    /\ LoopCalls[2].out = Some(2)
    /\ LoopCalls[3].root = Some(2)
    /\ LoopCalls[4].out = Some(1)

\* C3: a successful call on n deploys returns n results, the i-th being the
\* hash and header of deploy i with the public form of the one result the
\* engine returned for it; the engine is run n times, one deploy item a time.
C3_ResultList ==
    Succeeded =>
        /\ Len(ret.value.execution_results) = Len(deploys)
        /\ Len(Executes) = Len(deploys)
        /\ \A i \in DOMAIN deploys :
              /\ Len(Executes[i].arg.deploys) = 1
              /\ Executes[i].arg.deploys[1].deploy_hash = deploys[i].hash
              /\ ret.value.execution_results[i][1] = deploys[i].hash
              /\ ret.value.execution_results[i][2] = deploys[i].header
              /\ ret.value.execution_results[i][3].variant = Executes[i].out[1][1].kind
              /\ ret.value.execution_results[i][3].cost = Executes[i].out[1][1].cost
              /\ ret.value.execution_results[i][3].effect[2] = Executes[i].out[1][1].execution_journal

C3_Witness ==
    /\ Succeeded
    /\ Len(deploys) = 2
    /\ deploys[1].hash = 2
    /\ ret.value.execution_results[1][3].variant = "Failure"
    /\ ret.value.execution_results[2][3].variant = "Success"

\* C4: once the engine has returned no result or several results for a
\* deploy, that run_execute is the last call the block execution makes: the
\* call fails with MoreThanOneExecutionResult, nothing more is committed,
\* executed, stepped or written, and no Block is made.
C4_Cardinality ==
    \A k \in Positions(IsExecute) :
        (log[k].out # None /\ Len(log[k].out[1]) # 1)
            => /\ k = Len(log)
               /\ pc \in {"commit", "done"}
               /\ pc = "done" => ret = RetErr("commit", [error |-> "MoreThanOneExecutionResult"])
               /\ durable = << >>
               /\ Len(scratch_state[1]) = Len(DeployCommits)
               /\ Len(DeployCommits) = Len(Executes) - 1

C4_Witness ==
    /\ Failed
    /\ ret.value.error = "MoreThanOneExecutionResult"
    /\ Len(deploys) = 2
    /\ Len(Executes) = 1
    /\ Len(Executes[1].out[1]) = 2

C4_WitnessNone ==
    /\ Failed
    /\ ret.value.error = "MoreThanOneExecutionResult"
    /\ Len(Executes) = 2
    /\ Len(Executes[2].out[1]) = 0

\* C5: execute_only returns Ok(Some(result)) exactly when the engine returned
\* one result, Ok(None) when it returned none or several, and Err exactly when
\* the engine call itself returned an error.
C5_SpeculativeCardinality ==
    speculative # None =>
        LET call == speculative[1].calls[1]
            r    == speculative[1].ret
        IN  /\ Len(speculative[1].calls) = 1
            /\ IsExecute(call)
            /\ (r.status = "err") <=> (call.out = None)
            /\ (r.status = "ok" /\ r.value # None) <=> (call.out # None /\ Len(call.out[1]) = 1)
            /\ (r.status = "ok" /\ r.value = None) <=> (call.out # None /\ Len(call.out[1]) # 1)
            /\ (r.status = "ok" /\ r.value # None) =>
                   /\ r.value[1].variant = call.out[1][1].kind
                   /\ r.value[1].effect[2] = call.out[1][1].execution_journal

C5_Witness ==
    /\ speculative # None
    /\ speculative[1].calls[1].out # None
    /\ Len(speculative[1].calls[1].out[1]) = 2
    /\ speculative[1].ret = RetOk(None)
    /\ pc = "commit"

\* The statements of execute_finalized_block that come before the call of
\* write_scratch_to_db, and the call itself.
UpToWriteScratch ==
    {"check_height", "approvals_checksum", "execute", "commit", "results_checksum",
     "checksum_registry", "commit_step", "write_scratch"}

AfterWriteScratchSteps == {"era_validators", "flush", "proof", "block"}

\* C6 as stated: whatever the statement that fails, durable state is what it
\* was when the call started.
C6_NoDurableChangeOnAnyError ==
    Failed => durable = << >>

\* C6, amended: an error returned up to and including write_scratch_to_db
\* leaves durable state as it was when the call started; an error returned by a
\* later statement (get_era_validators, flush_environment,
\* get_checksum_registry_proof, Block::new) leaves it holding the one write of
\* the scratch state.
C6_NoDurableChangeBeforeWrite ==
    Failed =>
        /\ ret.at \in UpToWriteScratch \cup AfterWriteScratchSteps
        /\ ret.at \in UpToWriteScratch => durable = << >>
        /\ ret.at \in AfterWriteScratchSteps =>
              /\ Len(durable) = 1
              /\ Len(durable[1].writes) = Len(deploys) + 1 + Cardinality(Positions(IsStep))

C6_Witness ==
    /\ Failed
    /\ ret.at = "commit_step"
    /\ Len(deploys) = 2
    /\ Len(scratch_state[1]) = 3
    /\ durable = << >>

\* C7: until write_scratch_to_db has succeeded durable state is what it was
\* when the call started, every commit, the ChecksumRegistry write and the
\* step being cached by the scratch state; a successful call makes one call of
\* write_scratch_to_db and, after it, one call of flush_environment.
C7_ScratchConfinement ==
    /\ (Entered /\ \A k \in Positions(IsWriteScratch) : log[k].out = None) =>
          /\ durable = << >>
          /\ scratch_state # None =>
                Len(scratch_state[1]) =
                    Cardinality({ k \in Positions(IsApply) \cup Positions(IsStep) :
                                    log[k].out # None })
    /\ Succeeded =>
          /\ Cardinality(Positions(IsWriteScratch)) = 1
          /\ Cardinality(Positions(IsFlush)) = 1
          /\ \A w \in Positions(IsWriteScratch), f \in Positions(IsFlush) : w < f
          /\ flushed = 1
          /\ Len(durable) = 1

C7_Witness ==
    /\ Succeeded
    /\ Len(deploys) = 2
    /\ finalized_block[1].era_report = None
    /\ Len(durable[1].writes) = 3

C7_WitnessEra ==
    /\ pc = "write_scratch"
    /\ Len(deploys) = 1
    /\ finalized_block[1].era_report # None
    /\ Len(scratch_state[1]) = 3
    /\ durable = << >>

\* C8: a deploy whose one result is a Failure is committed like a Success:
\* its journal is applied to the scratch state, its result is recorded, the
\* working root becomes the root the commit returned and the loop goes on.
C8_FailureIsCommitted ==
    \A j \in DOMAIN Executes :
        (/\ Executes[j].out # None
         /\ Len(Executes[j].out[1]) = 1
         /\ Executes[j].out[1][1].kind = "Failure"
         /\ ~(pc = "commit" /\ j = Len(Executes)))
            => /\ Len(DeployCommits) >= j
               /\ DeployCommits[j].arg = << "AdditiveMap", Executes[j].out[1][1].execution_journal >>
               /\ DeployCommits[j].out # None =>
                     /\ execution_results[j] =
                            << deploys[j].hash, deploys[j].header,
                               [variant |-> "Failure",
                                effect |-> << "ExecutionEffect",
                                              Executes[j].out[1][1].execution_journal >>,
                                cost |-> Executes[j].out[1][1].cost] >>
                     /\ scratch_state # None => scratch_state[1][j] = DeployCommits[j].arg
                     /\ IF j < Len(Executes)
                          THEN Executes[j + 1].root = DeployCommits[j].out
                          ELSE /\ idx = j + 1
                               /\ pc \in {"loop", "checksum_registry"} =>
                                     state_root_hash = DeployCommits[j].out[1]
                     /\ ~(ret.status = "err" /\ ret.at = "commit" /\ Len(Executes) = j)

C8_Witness ==
    /\ Succeeded
    /\ Len(deploys) = 2
    /\ Executes[1].out[1][1].kind = "Failure"
    /\ Executes[2].out[1][1].kind = "Success"
    /\ ret.value.execution_results[1][3].variant = "Failure"
    /\ Len(durable[1].writes) = 3

C9_WitnessEmpty ==
    /\ Succeeded
    /\ Len(deploys) = 0
    /\ Positions(IsRegistryWrite) = {2}
    /\ Positions(IsWriteScratch) = {3}

\* C10: commit_step is called once when the finalized block has an era
\* report and never otherwise; a successful call returns a step outcome iff
\* the block has an era report, and the Block's next era validator weights are
\* absent without a step and otherwise the entry of the successor of the
\* block's era in the table get_era_validators returned, if it has one.
C10_StepIffEraReport ==
    /\ Cardinality(Positions(IsStep)) <= 1
    /\ (Entered /\ finalized_block[1].era_report = None) => Positions(IsStep) = {}
    /\ Succeeded =>
          LET has_report == finalized_block[1].era_report # None
              weights    == ret.value.block.next_era_validator_weights
              outcome    == ret.value.maybe_step_effect_and_upcoming_era_validators
          IN  /\ Cardinality(Positions(IsStep)) = IF has_report THEN 1 ELSE 0
              /\ (outcome # None) <=> has_report
              /\ ~has_report => weights = None /\ Positions(IsEraValidators) = {}
              /\ has_report =>
                    \E k \in Positions(IsEraValidators) :
                        LET table == log[k].out[1]
                        IN  /\ outcome[1].upcoming_era_validators = table
                            /\ IF (finalized_block[1].era_id + 1) \in DOMAIN table
                                 THEN weights = Some(table[finalized_block[1].era_id + 1])
                                 ELSE weights = None

C10_Witness ==
    /\ Succeeded
    /\ finalized_block[1].era_report # None
    /\ ret.value.block.next_era_validator_weights = Some(100 + EraIdOfBlock + 1)
    /\ EraIdOfBlock \in DOMAIN ret.value.maybe_step_effect_and_upcoming_era_validators[1].upcoming_era_validators

C10_WitnessAbsent ==
    /\ Succeeded
    /\ finalized_block[1].era_report # None
    /\ ret.value.block.next_era_validator_weights = None
    /\ DOMAIN ret.value.maybe_step_effect_and_upcoming_era_validators[1].upcoming_era_validators
           = {EraIdOfBlock}

(* ----------------------------- the era step --------------------------- *)
\* The validators a list names.
Range(list) == { list[i] : i \in DOMAIN list }

\* C11 as stated: the evict items of the StepRequest name exactly the
\* inactive validators and the equivocators, and name no validator twice.
C11_EvictItemsAreASet ==
    \A k \in Positions(IsStep) :
        LET report == finalized_block[1].era_report[1]
            evict  == log[k].arg.evict_items
        IN  /\ { evict[i].validator_id : i \in DOMAIN evict } =
                   Range(report.inactive_validators) \cup Range(report.equivocators)
            /\ \A i, j \in DOMAIN evict : evict[i] = evict[j] => i = j

\* C11, amended: the evict items are the inactive validators followed by the
\* equivocators, one item per entry of either list; they name exactly the
\* union of the two, and a validator that is in both is named twice.
C11_EvictItemsAreTheChain ==
    \A k \in Positions(IsStep) :
        LET report == finalized_block[1].era_report[1]
            evict  == log[k].arg.evict_items
            n      == Len(report.inactive_validators)
        IN  /\ Len(evict) = n + Len(report.equivocators)
            /\ \A i \in DOMAIN evict :
                  evict[i].validator_id =
                      IF i <= n THEN report.inactive_validators[i]
                                ELSE report.equivocators[i - n]
            /\ { evict[i].validator_id : i \in DOMAIN evict } =
                   Range(report.inactive_validators) \cup Range(report.equivocators)
            /\ \A v \in Range(report.inactive_validators) \cap Range(report.equivocators) :
                  Cardinality({ i \in DOMAIN evict : evict[i].validator_id = v }) = 2

C11_Witness ==
    /\ Positions(IsStep) # {}
    /\ finalized_block[1].era_report[1].inactive_validators = << "A" >>
    /\ finalized_block[1].era_report[1].equivocators = << "A" >>
    /\ pc = "write_scratch"
    /\ Len(log[Len(log)].arg.evict_items) = 2

C11_WitnessDisjoint ==
    /\ Positions(IsStep) # {}
    /\ finalized_block[1].era_report[1].inactive_validators = << "B" >>
    /\ finalized_block[1].era_report[1].equivocators = << "A" >>
    /\ pc = "write_scratch"
    /\ log[Len(log)].arg.evict_items = << [validator_id |-> "B"], [validator_id |-> "A"] >>

\* C12: a commit_step that returns an error is the last call the block
\* execution makes: the call returns the step error, and write_scratch_to_db,
\* flush_environment, get_era_validators, get_checksum_registry_proof and
\* Block::new are not called; durable state is what it was at call entry.
C12_StepErrorIsFatal ==
    \A k \in Positions(IsStep) :
        log[k].out = None
            => /\ k = Len(log)
               /\ pc = "done"
               /\ ret = RetErr("commit_step", [error |-> "Step"])
               /\ Positions(IsWriteScratch) = {}
               /\ Positions(IsFlush) = {}
               /\ Positions(IsEraValidators) = {}
               /\ Positions(IsProof) = {}
               /\ Positions(IsBlockNew) = {}
               /\ durable = << >>
               /\ flushed = 0

C12_Witness ==
    /\ Failed
    /\ ret.at = "commit_step"
    /\ Len(deploys) = 1
    /\ Len(finalized_block[1].era_report[1].rewards) = 2
    /\ log[Len(log)].op = "commit_step"
    /\ log[Len(log)].out = None

(* ------------------------- the roots after the loop ------------------- *)
\* The root the last deploy's commit left: what the last commit returned, or
\* pre_state_root_hash when the block has no deploys.
RootLeftByDeploys ==
    IF Len(DeployCommits) = 0 THEN execution_pre_state[1].pre_state_root_hash
    ELSE DeployCommits[Len(DeployCommits)].out[1]

\* C17 as stated: commit_step and write_scratch_to_db are given the root the
\* ChecksumRegistry write returned.
C17_RegistryRootIsThreaded ==
    \A k \in Positions(IsStep) \cup Positions(IsWriteScratch) :
        \E r \in Positions(IsRegistryWrite) : r < k /\ log[k].root = log[r].out

\* C17, amended: the root the ChecksumRegistry write returns is dropped; the
\* write itself, commit_step and write_scratch_to_db are all given the root the
\* last deploy's commit left (pre_state_root_hash for a block without deploys).
C17_RegistryRootIsDropped ==
    \A k \in Positions(IsRegistryWrite) \cup Positions(IsStep) \cup Positions(IsWriteScratch) :
        /\ log[k].root = Some(RootLeftByDeploys)
        /\ IsStep(log[k]) => log[k].arg.pre_state_hash = RootLeftByDeploys

C17_Witness ==
    /\ pc = "era_validators"
    /\ Len(deploys) = 1
    /\ log[3].out = Some(1)
    /\ log[4].out = Some(2)
    /\ log[5].root = Some(1)
    /\ log[6].root = Some(1)

(* ------------------------------ the checksums ------------------------- *)
\* Every deploy has been executed and its effects committed.
AllDeploysCommitted ==
    /\ Len(Executes) = Len(deploys)
    /\ Len(DeployCommits) = Len(deploys)
    /\ \A i \in DOMAIN DeployCommits : DeployCommits[i].out # None

\* C18 as stated: a checksum computation, of the approvals or of the execution
\* results, fails only after every deploy has been executed and committed.
C18_ChecksumsAfterTheLoop ==
    (Failed /\ ret.at \in {"approvals_checksum", "results_checksum"})
        => AllDeploysCommitted

\* C18, amended: the execution results checksum is computed after the
\* effects of every deploy have been committed and before the ChecksumRegistry
\* write and the step; the approvals checksum is computed before the scratch
\* state is opened and before the first deploy is executed, so that its failure
\* comes before any call to the engine.
C18_ChecksumPoints ==
    /\ (Failed /\ ret.at = "approvals_checksum")
          => /\ log = << >>
             /\ scratch_state = None
             /\ approvals_checksum = None
    /\ (Failed /\ ret.at = "results_checksum")
          => /\ AllDeploysCommitted
             /\ Positions(IsRegistryWrite) = {}
             /\ Positions(IsStep) = {}
             /\ approvals_checksum # None
    /\ \A k \in DOMAIN log : approvals_checksum # None
    /\ pc \in {"get_scratch", "loop", "commit"} =>
          approvals_checksum =
              Some([digest_of |-> [i \in DOMAIN deploys |->
                                      << deploys[i].hash, deploys[i].approvals_hash >>]])

C18_Witness ==
    /\ Failed
    /\ ret.at = "approvals_checksum"
    /\ Len(deploys) = 2
    /\ log = << >>

C18_WitnessResults ==
    /\ Failed
    /\ ret.at = "results_checksum"
    /\ Len(deploys) = 2
    /\ Len(log) = 5

\* C19: the root write_scratch_to_db returned is the one get_era_validators
\* and get_checksum_registry_proof are called with and the one stored in the
\* Block; the post-state hash of the scratch step is handed to nobody; the
\* validators are read after the write, the proof after flush_environment, and
\* the Block is made after the proof has been fetched.
C19_AuthoritativeRoot ==
    /\ \A k \in DOMAIN log : log[k].root # Some(StepRoot)
    /\ \A k \in Positions(IsEraValidators) \cup Positions(IsProof) \cup Positions(IsBlockNew) :
          \E w \in Positions(IsWriteScratch) :
              /\ w < k
              /\ log[w].out # None
              /\ log[k].root = log[w].out
              /\ \A s \in Positions(IsStep) : s < w
    /\ \A k \in Positions(IsEraValidators) :
          log[k].arg.state_hash = log[k].root[1]
    /\ \A k \in Positions(IsProof) :
          \E f \in Positions(IsFlush) : f < k /\ log[f].out # None
    /\ \A k \in Positions(IsBlockNew) :
          /\ k = Len(log)
          /\ \E q \in Positions(IsProof) : q < k /\ log[q].out # None
    /\ Succeeded =>
          /\ Positions(IsBlockNew) # {}
          /\ \A w \in Positions(IsWriteScratch) :
                /\ ret.value.block.state_root_hash = log[w].out[1]
                /\ ret.value.approvals_hashes.proof_of_checksum_registry.proof_at = log[w].out[1]

C19_Witness ==
    /\ Succeeded
    /\ finalized_block[1].era_report # None
    /\ Len(deploys) = 1
    /\ log[3].out = Some(1)
    /\ ret.value.block.state_root_hash = 2
    /\ log[7].op = "get_era_validators"
    /\ log[7].root = Some(2)

\* C20: the StepRequest of commit_step has one reward item per entry of the
\* era report's rewards, validator and amount as they are, no slash item, the
\* working root as pre_state_hash, the protocol version, the successor of the
\* block's era as next_era_id and the block's timestamp as the era end.
C20_StepRequest ==
    \A k \in Positions(IsStep) :
        LET report  == finalized_block[1].era_report[1]
            request == log[k].arg
        IN  /\ Len(request.reward_items) = Len(report.rewards)
            /\ \A i \in DOMAIN report.rewards :
                  /\ request.reward_items[i].validator_id = report.rewards[i][1]
                  /\ request.reward_items[i].value = report.rewards[i][2]
            /\ request.slash_items = << >>
            /\ request.pre_state_hash = RootLeftByDeploys
            /\ log[k].root = Some(request.pre_state_hash)
            /\ request.protocol_version = ProtocolVersion
            /\ request.next_era_id = finalized_block[1].era_id + 1
            /\ request.era_end_timestamp_millis = finalized_block[1].timestamp

C20_Witness ==
    /\ pc = "write_scratch"
    /\ Positions(IsStep) # {}
    /\ Len(deploys) = 2
    /\ log[Len(log)].arg.reward_items =
           << [validator_id |-> "A", value |-> 5], [validator_id |-> "B", value |-> 6] >>
    /\ log[Len(log)].arg.pre_state_hash = 2
    /\ log[Len(log)].arg.next_era_id = EraIdOfBlock + 1

(* --------------------------- speculative execution -------------------- *)
\* What execute_only did: one run_execute, of the one deploy it was given, on
\* the state root it was given, and no other call.
OneRunAndNoCommit ==
    speculative # None =>
        LET calls == speculative[1].calls
        IN  /\ Len(calls) = 1
            /\ calls[1].op = "run_execute"
            /\ calls[1].root = Some(speculative[1].execution_state.state_root_hash)
            /\ calls[1].arg.parent_state_hash = speculative[1].execution_state.state_root_hash
            /\ calls[1].arg.deploys = << speculative[1].deploy >>
            /\ \A k \in DOMAIN calls :
                  calls[k].op \notin {"apply_effect", "commit_step", "write_scratch_to_db",
                                      "flush_environment"}

\* C15: execute_only runs the engine once, on one deploy and on the state
\* root it is given, and calls no commit, step, scratch write or flush; a call
\* of execute_only, whatever the engine returns and wherever the block
\* execution stands, leaves the scratch state, durable state and every local
\* of the block execution as they are.
C15_SpeculativeFrame ==
    [][speculative' # speculative =>
          /\ OneRunAndNoCommit'
          /\ durable' = durable
          /\ scratch_state' = scratch_state
          /\ UNCHANGED << pc, state_root_hash, execution_results, flushed, log, ret, result >>]_vars

C15_Witness ==
    /\ speculative # None
    /\ pc = "write_scratch"
    /\ Len(deploys) = 1
    /\ Len(scratch_state[1]) = 2
    /\ durable = << >>
    /\ speculative[1].ret.status = "ok"
    /\ speculative[1].ret.value # None
    /\ speculative[1].execution_state.state_root_hash = 1

(* ------------------------- two calls, one engine ---------------------- *)
\* A returned call went past the height check.
WentPastGate(r) == ~(r.status = "err" /\ r.at = "check_height")

\* The number of writes of a scratch state the call has made.
WritesOf(l) == Cardinality({ k \in DOMAIN l : l[k].op = "write_scratch_to_db" /\ l[k].out # None })

\* C16 as stated: of two calls on one engine instance for the same height, the
\* height check lets at most one through, and at most one writes durable state.
C16_OneCallPerHeight ==
    (/\ first_run # None
     /\ PastGate
     /\ finalized_block[1].height = first_run[1].finalized_block.height)
        => /\ ~(WentPastGate(first_run[1].ret) /\ WentPastGate(ret))
           /\ ~(WritesOf(first_run[1].log) > 0 /\ WritesOf(log) > 0)

\* C16, amended: the height check compares the height of the finalized block
\* with next_block_height of the pre-state the caller passes, and with nothing
\* else: a call is rejected exactly when the two differ, whatever an earlier
\* call on the same engine did; a call made after another one for the same
\* height with a matching pre-state goes past the check like the first.
C16_GateLooksAtArgumentsOnly ==
    /\ PastGate =>
          ((ret.status = "err" /\ ret.at = "check_height")
              <=> finalized_block[1].height # execution_pre_state[1].next_block_height)
    /\ first_run # None =>
          (~WentPastGate(first_run[1].ret)
              <=> first_run[1].finalized_block.height
                      # first_run[1].execution_pre_state.next_block_height)
    /\ Len(durable) = (IF first_run # None THEN WritesOf(first_run[1].log) ELSE 0) + WritesOf(log)

C16_Witness ==
    /\ first_run # None
    /\ Succeeded
    /\ first_run[1].ret.status = "ok"
    /\ finalized_block[1] = first_run[1].finalized_block
    /\ deploys = first_run[1].deploys
    /\ Len(durable) = 2

(* ----------------------------- determinism ---------------------------- *)
\* C13: with a deterministic engine and state store, the same call made again
\* from the same durable state, with metrics or without, returns what the first
\* call returned: the same Block with the same state root hash, the same
\* ApprovalsHashes and the same execution results, or the same error; it makes
\* the same calls to the engine and leaves the same durable state.
C13_Determinism ==
    (first_run # None /\ pc = "done")
        => /\ ret = first_run[1].ret
           /\ log = first_run[1].log
           /\ durable = first_run[1].durable
           /\ ret.status = "ok" =>
                 /\ ret.value.block.state_root_hash =
                        first_run[1].ret.value.block.state_root_hash
                 /\ ret.value.approvals_hashes = first_run[1].ret.value.approvals_hashes
                 /\ ret.value.execution_results = first_run[1].ret.value.execution_results

C13_Witness ==
    /\ first_run # None
    /\ Succeeded
    /\ metrics # first_run[1].metrics
    /\ Len(deploys) = 2
    /\ finalized_block[1].era_report # None
    /\ ret.value.block.state_root_hash = 2
    /\ log[3].out = Some(1)
    /\ log[5].out = Some(2)

C13_WitnessError ==
    /\ first_run # None
    /\ Failed
    /\ metrics # first_run[1].metrics
    /\ ret.at = "results_checksum"
    /\ Len(deploys) = 1

(* ---------------------------- deploy order ---------------------------- *)
\* Two deploys whose effects on the state at `root` do not commute.
DoNotCommute(ds, root) ==
    /\ Len(ds) = 2
    /\ CounterAfter(ds[2].hash, CounterAfter(ds[1].hash, root))
          # CounterAfter(ds[1].hash, CounterAfter(ds[2].hash, root))

\* C14: when two deploys whose effects do not commute are executed as [a, b] and
\* as [b, a] from the same pre-state, the two Blocks carry different state root
\* hashes: each is the root the second deploy left when it was executed on the
\* root the commit of the first one returned.
C14_OrderSensitivity ==
    (/\ first_run # None
     /\ Succeeded
     /\ first_run[1].ret.status = "ok"
     /\ DoNotCommute(deploys, execution_pre_state[1].pre_state_root_hash))
        => /\ ret.value.block.state_root_hash # first_run[1].ret.value.block.state_root_hash
           /\ ret.value.block.state_root_hash =
                 CounterAfter(deploys[2].hash,
                              CounterAfter(deploys[1].hash,
                                           execution_pre_state[1].pre_state_root_hash))

C14_Witness ==
    /\ first_run # None
    /\ Succeeded
    /\ first_run[1].ret.status = "ok"
    /\ deploys = << Deploy(2), Deploy(1) >>
    /\ first_run[1].deploys = << Deploy(1), Deploy(2) >>
    /\ ret.value.block.state_root_hash = 2
    /\ first_run[1].ret.value.block.state_root_hash = 3

=============================================================================
